---- MODULE Spec2Model ----
(***************************************************************************)
(* Model of node-scrypt-pwd: password hashing on crypto.scrypt.            *)
(*                                                                         *)
(* The repository holds two generations of the module:                     *)
(*   src/index.js          records  <b64(hash)>$<b64(salt)>$<N>$<r>$<p>,   *)
(*                         option `permissive`, function looksGood;        *)
(*   src/unnamed/part_002  PHC records $scrypt$n=..,r=..,p=..$salt$hash,   *)
(*                         option `strict`, function needsRehash.          *)
(* Both are modelled; the variable impl says which one a behaviour runs.   *)
(*                                                                         *)
(* Strings are sequences of one-character strings, Buffers are sequences   *)
(* of bytes (0..255).  A JavaScript object is [val, und]: val maps the     *)
(* keys that hold a value to it, und is the set of keys that are present   *)
(* and hold undefined.                                                     *)
(***************************************************************************)
EXTENDS Integers, Sequences, FiniteSets, TLC

\* Bounds of the model.
MaxOpts == 1        \* reconfiguration calls (opts with an argument) in one run
MaxRecords == 1     \* records kept by the caller (the password database)
MaxPending == 1     \* callers awaiting a key derivation at once
MaxReconfigure == 2 \* reconfiguration calls in a run of the synchronous operations

(***************************************************************************)
(* Text: base64, decimal numbers, split                                    *)
(***************************************************************************)
B64 ==
  << "A","B","C","D","E","F","G","H","I","J","K","L","M","N","O","P",
     "Q","R","S","T","U","V","W","X","Y","Z","a","b","c","d","e","f",
     "g","h","i","j","k","l","m","n","o","p","q","r","s","t","u","v",
     "w","x","y","z","0","1","2","3","4","5","6","7","8","9","+","/" >>

B64Index == [c \in {B64[i] : i \in 1..64} |-> (CHOOSE i \in 1..64 : B64[i] = c) - 1]

\* unbase64: the 6-bit value of a character, -1 for a character outside the
\* alphabet.  Node also reads the URL-safe '-' and '_'.
unbase64(c) ==
  IF c \in DOMAIN B64Index THEN B64Index[c]
  ELSE IF c = "-" THEN 62
  ELSE IF c = "_" THEN 63
  ELSE -1

\* buf.toString('base64'): three bytes to four characters, '=' padding.
toBase64(buf) ==
  LET n == Len(buf)
      byte(k) == IF k <= n THEN buf[k] ELSE 0
      char(k) ==
        LET g == 3 * ((k - 1) \div 4)
            j == (k - 1) % 4
        IN  IF j = 0 THEN B64[(byte(g + 1) \div 4) + 1]
            ELSE IF j = 1
              THEN B64[((byte(g + 1) % 4) * 16) + (byte(g + 2) \div 16) + 1]
            ELSE IF j = 2
              THEN IF g + 2 > n THEN "="
                   ELSE B64[((byte(g + 2) % 16) * 4) + (byte(g + 3) \div 64) + 1]
            ELSE IF g + 3 > n THEN "=" ELSE B64[(byte(g + 3) % 64) + 1]
  IN  [k \in 1..(4 * ((n + 2) \div 3)) |-> char(k)]

\* The 6-bit values Node's decoder reads: characters outside the alphabet are
\* skipped, the first '=' ends the input.
b64Symbols(text) ==
  LET stops == {k \in 1..Len(text) : text[k] = "="}
      cut   == IF stops = {} THEN Len(text)
               ELSE (CHOOSE k \in stops : \A j \in stops : k <= j) - 1
      legal == SelectSeq(SubSeq(text, 1, cut), LAMBDA c : unbase64(c) >= 0)
  IN  [k \in 1..Len(legal) |-> unbase64(legal[k])]

\* Four 6-bit values give three bytes; a last group of two or three values
\* gives one or two bytes, a single left-over value none.
b64Groups(v) ==
  LET byte(k) ==
        LET g == 4 * ((k - 1) \div 3)
            j == (k - 1) % 3
        IN  IF j = 0 THEN (v[g + 1] * 4) + (v[g + 2] \div 16)
            ELSE IF j = 1 THEN ((v[g + 2] % 16) * 16) + (v[g + 3] \div 4)
            ELSE ((v[g + 3] % 4) * 64) + v[g + 4]
  IN  [k \in 1..((Len(v) * 6) \div 8) |-> byte(k)]

\* Buffer.from(text, 'base64'): never throws.
fromBase64(text) == b64Groups(b64Symbols(text))

Digits == << "0","1","2","3","4","5","6","7","8","9" >>
DigitValue == [c \in {Digits[i] : i \in 1..10} |-> (CHOOSE i \in 1..10 : Digits[i] = c) - 1]
HexValue ==
  DigitValue @@ ("a" :> 10) @@ ("b" :> 11) @@ ("c" :> 12) @@ ("d" :> 13)
             @@ ("e" :> 14) @@ ("f" :> 15) @@ ("A" :> 10) @@ ("B" :> 11)
             @@ ("C" :> 12) @@ ("D" :> 13) @@ ("E" :> 14) @@ ("F" :> 15)

\* Number.prototype.toString of an integer, as the template literal and
\* phc.serialize apply it.
RECURSIVE natToString(_)
natToString(n) ==
  IF n < 10 THEN << Digits[n + 1] >>
  ELSE natToString(n \div 10) \o << Digits[(n % 10) + 1] >>

toString(n) == IF n < 0 THEN << "-" >> \o natToString(-n) ELSE natToString(n)

\* The value of the longest prefix of text made of digits of the radix;
\* [n |-> number of digits read, v |-> their value].
RECURSIVE readDigits(_, _, _, _)
readDigits(text, radix, n, v) ==
  IF Len(text) > 0 /\ text[1] \in DOMAIN HexValue /\ HexValue[text[1]] < radix
  THEN readDigits(Tail(text), radix, n + 1, (v * radix) + HexValue[text[1]])
  ELSE [n |-> n, v |-> v]

RECURSIVE trimStart(_)
trimStart(text) ==
  IF Len(text) > 0 /\ text[1] = " " THEN trimStart(Tail(text)) ELSE text

\* parseInt(text) without a radix: leading white space, a sign, an optional
\* 0x prefix, then the longest run of digits; the rest is ignored.
\* NaN is [nan |-> TRUE].
parseInt(text) ==
  LET t    == trimStart(text)
      neg  == Len(t) > 0 /\ t[1] = "-"
      u    == IF Len(t) > 0 /\ t[1] \in {"-", "+"} THEN Tail(t) ELSE t
      hex  == Len(u) >= 2 /\ u[1] = "0" /\ u[2] \in {"x", "X"}
      d    == IF hex THEN readDigits(SubSeq(u, 3, Len(u)), 16, 0, 0)
              ELSE readDigits(u, 10, 0, 0)
  IN  IF d.n = 0 THEN [nan |-> TRUE, v |-> 0]
      ELSE [nan |-> FALSE, v |-> IF neg THEN -d.v ELSE d.v]

\* text.split(sep) for a one-character separator.
split(text, sep) ==
  LET n    == Len(text)
      at   == SelectSeq([k \in 1..n |-> k], LAMBDA k : text[k] = sep)
      from(j) == IF j = 1 THEN 1 ELSE at[j - 1] + 1
      to(j)   == IF j = Len(at) + 1 THEN n ELSE at[j] - 1
  IN  [j \in 1..(Len(at) + 1) |-> SubSeq(text, from(j), to(j))]

\* parts.join(sep)
RECURSIVE join(_, _)
join(parts, sep) ==
  IF Len(parts) = 0 THEN << >>
  ELSE IF Len(parts) = 1 THEN parts[1]
  ELSE parts[1] \o << sep >> \o join(Tail(parts), sep)

(***************************************************************************)
(* JavaScript objects                                                      *)
(***************************************************************************)
Obj(val) == [val |-> val, und |-> {}]
EmptyObj == [val |-> << >>, und |-> {}]

\* Object.keys(o); k \in Keys(o) is `k in o`.
Keys(o) == DOMAIN o.val \cup o.und

\* { ...a, ...b }
spread(a, b) ==
  [val |-> [k \in (DOMAIN a.val \ b.und) \cup DOMAIN b.val |->
              IF k \in DOMAIN b.val THEN b.val[k] ELSE a.val[k]],
   und |-> (a.und \ DOMAIN b.val) \cup b.und]

(***************************************************************************)
(* Options                                                                 *)
(***************************************************************************)
DefaultHashLength == 32
DefaultSaltLength == 16
DefaultCost == 16384
DefaultBlockSize == 8
DefaultParallelization == 1
DefaultMaxmem == 67108864

Impls == {"index", "phc"}

\* defaultOptions: index.js holds `permissive: false`, part_002 `strict: false`.
defaultOptions(i) ==
  Obj(("hashlength" :> DefaultHashLength) @@ ("saltlength" :> DefaultSaltLength)
      @@ ("pepper" :> << >>) @@ ("cost" :> DefaultCost)
      @@ ("blockSize" :> DefaultBlockSize)
      @@ ("parallelization" :> DefaultParallelization)
      @@ ("maxmem" :> DefaultMaxmem)
      @@ (IF i = "index" THEN "permissive" :> FALSE ELSE "strict" :> FALSE))

shorthand == [cost |-> "N", blockSize |-> "r", parallelization |-> "p"]

\* A variant where the canonical key, when given, is kept.
applyShorthand_CanonicalWins(o) ==
  LET moved  == {k \in DOMAIN shorthand : shorthand[k] \in Keys(o) /\ k \notin Keys(o)}
      src(k) == IF k \in moved THEN shorthand[k] ELSE k
      keys   == (Keys(o) \ {shorthand[k] : k \in DOMAIN shorthand}) \cup moved
  IN  [val |-> [k \in {j \in keys : src(j) \in DOMAIN o.val} |-> o.val[src(k)]],
       und |-> {k \in keys : src(k) \in o.und}]

\* normalize, first loop: a short-hand key replaces the canonical one and is
\* deleted.
applyShorthand(o) ==
  LET moved  == {k \in DOMAIN shorthand : shorthand[k] \in Keys(o)}
      src(k) == IF k \in moved THEN shorthand[k] ELSE k
      keys   == (Keys(o) \ {shorthand[k] : k \in DOMAIN shorthand}) \cup moved
  IN  [val |-> [k \in {j \in keys : src(j) \in DOMAIN o.val} |-> o.val[src(k)]],
       und |-> {k \in keys : src(k) \in o.und}]

\* A variant that drops the keys holding undefined.
resetUndefined_Drops(i, o) == [val |-> o.val, und |-> {}]

\* normalize, second loop: a key holding undefined takes defaultOptions[key]
\* (which is undefined again for a key defaultOptions does not hold).
resetUndefined(i, o) ==
  LET d == defaultOptions(i).val
  IN  [val |-> [k \in DOMAIN o.val \cup (o.und \cap DOMAIN d) |->
                  IF k \in DOMAIN o.val THEN o.val[k] ELSE d[k]],
       und |-> o.und \ DOMAIN d]

normalize(i, options) == resetUndefined(i, applyShorthand(options))

\* getOptions: { ...currentOptions, ...normalize(options) }
getOptions(i, cur, options) == spread(cur, normalize(i, options))

\* The policy is strict: index.js tests !combinedOptions.permissive,
\* part_002 tests combinedOptions.strict.
isStrict(i, o) ==
  IF i = "index" THEN ~o.val["permissive"] ELSE o.val["strict"]

(***************************************************************************)
(* The primitives of node:crypto                                           *)
(***************************************************************************)
SaltSeeds == {3, 250}

\* crypto.randomBytes(n): one of the byte strings of length n.
randomBytes(n) == {[j \in 1..n |-> (s * j) % 256] : s \in SaltSeeds}

PowersOfTwo == {2^k : k \in 1..20}

log2(n) == CHOOSE k \in 1..20 : 2^k = n

\* crypto.scrypt refuses its parameters: N is no power of two above 1, or the
\* memory 128*r*p + 128*r*(N+2) is above maxmem.
scryptRefuses(N, r, p, maxmem) ==
  \/ N \notin PowersOfTwo
  \/ r < 1 \/ p < 1
  \/ (128 * r * p) + (128 * r * (N + 2)) > maxmem

CharCode == ("a" :> 97) @@ ("b" :> 98) @@ ("c" :> 99)

\* The derived key, for parameters scrypt accepts.  scrypt is taken to be
\* collision-free: the key spells out what it was derived from, cut to keylen.
scryptKey(password, salt, keylen, N, r, p) ==
  LET from == << Len(password) >> \o [j \in 1..Len(password) |-> CharCode[password[j]]]
              \o << log2(N), r % 256, p % 256, Len(salt) >> \o salt
  IN  [j \in 1..keylen |-> IF j <= Len(from) THEN from[j] ELSE (j * 7) % 256]

(***************************************************************************)
(* src/index.js: records <b64(hash)>$<b64(salt)>$<cost>$<blockSize>$<p>    *)
(***************************************************************************)
\* A variant writing parallelization before blockSize.
formatRecord_Swapped(derivedKey, salt, o) ==
  toBase64(derivedKey) \o << "$" >> \o toBase64(salt) \o << "$" >>
    \o toString(o.val["cost"]) \o << "$" >> \o toString(o.val["parallelization"])
    \o << "$" >> \o toString(o.val["blockSize"])

\* The template literal hash resolves with.
formatRecord(derivedKey, salt, o) ==
  toBase64(derivedKey) \o << "$" >> \o toBase64(salt) \o << "$" >>
    \o toString(o.val["cost"]) \o << "$" >> \o toString(o.val["blockSize"])
    \o << "$" >> \o toString(o.val["parallelization"])

\* What parse gives: the parsed record, or the Error it throws.
Thrown(msg) ==
  [ok |-> FALSE, err |-> msg, hashedPassword |-> << >>, salt |-> << >>,
   cost |-> 0, blockSize |-> 0, parallelization |-> 0]

Parsed(hashedPassword, salt, cost, blockSize, parallelization) ==
  [ok |-> TRUE, err |-> "", hashedPassword |-> hashedPassword, salt |-> salt,
   cost |-> cost, blockSize |-> blockSize, parallelization |-> parallelization]

\* A variant that does not compare parallelization.
strictChecks_NoParallelization(h, o) ==
  IF Len(h.hashedPassword) # o.val["hashlength"] THEN Thrown("Hash length does not match")
  ELSE IF Len(h.salt) # o.val["saltlength"] THEN Thrown("Salt length does not match")
  ELSE IF h.cost # o.val["cost"] THEN Thrown("Parameter cost does not match")
  ELSE IF h.blockSize # o.val["blockSize"] THEN Thrown("Parameter blockSize does not match")
  ELSE h

\* A variant that does not compare blockSize.
strictChecks_NoBlockSize(h, o) ==
  IF Len(h.hashedPassword) # o.val["hashlength"] THEN Thrown("Hash length does not match")
  ELSE IF Len(h.salt) # o.val["saltlength"] THEN Thrown("Salt length does not match")
  ELSE IF h.cost # o.val["cost"] THEN Thrown("Parameter cost does not match")
  ELSE IF h.parallelization # o.val["parallelization"]
    THEN Thrown("Parameter parallelization does not match")
  ELSE h

\* parse, the non-permissive checks: the two lengths, then cost, blockSize,
\* parallelization in that order.
strictChecks(h, o) ==
  IF Len(h.hashedPassword) # o.val["hashlength"] THEN Thrown("Hash length does not match")
  ELSE IF Len(h.salt) # o.val["saltlength"] THEN Thrown("Salt length does not match")
  ELSE IF h.cost # o.val["cost"] THEN Thrown("Parameter cost does not match")
  ELSE IF h.blockSize # o.val["blockSize"] THEN Thrown("Parameter blockSize does not match")
  ELSE IF h.parallelization # o.val["parallelization"]
    THEN Thrown("Parameter parallelization does not match")
  ELSE h

parse(cur, hash, options) ==
  LET combinedOptions == getOptions("index", cur, options)
      parts == split(hash, "$")
  IN  IF Len(parts) # 5 THEN Thrown("Invalid hash format")
      ELSE
        LET cost == parseInt(parts[3])
            blockSize == parseInt(parts[4])
            parallelization == parseInt(parts[5])
            h == Parsed(fromBase64(parts[1]), fromBase64(parts[2]),
                        cost.v, blockSize.v, parallelization.v)
        IN  IF cost.nan \/ ~(cost.v > 0) THEN Thrown("Invalid parameter cost")
            ELSE IF blockSize.nan \/ ~(blockSize.v > 0)
              THEN Thrown("Invalid parameter blockSize")
            ELSE IF parallelization.nan \/ ~(parallelization.v > 0)
              THEN Thrown("Invalid parameter parallelization")
            ELSE IF ~combinedOptions.val["permissive"] THEN strictChecks(h, combinedOptions)
            ELSE h

looksGood(cur, hash, options) == parse(cur, hash, options).ok

\* verify up to the call of crypto.scrypt.  step is "false" (parse threw and
\* the catch answered), "rejected" (crypto.scrypt threw inside the promise's
\* executor) or "derive" (the derivation is under way; the callback compares
\* its key with expected).
VerifyStep(step, fullPassword, salt, keylen, N, r, p, expected) ==
  [step |-> step, fullPassword |-> fullPassword, salt |-> salt, keylen |-> keylen,
   N |-> N, r |-> r, p |-> p, expected |-> expected]

VerifyFalse == VerifyStep("false", << >>, << >>, 0, 0, 0, 0, << >>)
VerifyRejected == VerifyStep("rejected", << >>, << >>, 0, 0, 0, 0, << >>)

\* A variant without the catch: the error of parse rejects the promise.
verifyParsed_NoCatch(parsedHash, fullPassword, maxmem) ==
  IF ~parsedHash.ok THEN VerifyRejected
  ELSE IF scryptRefuses(parsedHash.cost, parsedHash.blockSize,
                        parsedHash.parallelization, maxmem)
    THEN VerifyRejected
  ELSE VerifyStep("derive", fullPassword, parsedHash.salt,
                  Len(parsedHash.hashedPassword), parsedHash.cost,
                  parsedHash.blockSize, parsedHash.parallelization,
                  parsedHash.hashedPassword)

\* verify, the body of the try after parse returned or threw parsedHash.
verifyParsed(parsedHash, fullPassword, maxmem) ==
  IF ~parsedHash.ok THEN VerifyFalse
  ELSE IF scryptRefuses(parsedHash.cost, parsedHash.blockSize,
                        parsedHash.parallelization, maxmem)
    THEN VerifyRejected
  ELSE VerifyStep("derive", fullPassword, parsedHash.salt,
                  Len(parsedHash.hashedPassword), parsedHash.cost,
                  parsedHash.blockSize, parsedHash.parallelization,
                  parsedHash.hashedPassword)

\* A variant that derives from the password alone.
verify_NoPepper(cur, password, hash, options) ==
  LET combinedOptions == getOptions("index", cur, options)
  IN  verifyParsed(parse(cur, hash, options), password,
                   combinedOptions.val["maxmem"])

\* A variant that puts a separator between the password and the pepper.
verify_Separated(cur, password, hash, options) ==
  LET combinedOptions == getOptions("index", cur, options)
  IN  verifyParsed(parse(cur, hash, options),
                   password \o << "c" >> \o combinedOptions.val["pepper"],
                   combinedOptions.val["maxmem"])

verify(cur, password, hash, options) ==
  LET combinedOptions == getOptions("index", cur, options)
  IN  verifyParsed(parse(cur, hash, options),
                   password \o combinedOptions.val["pepper"],
                   combinedOptions.val["maxmem"])

(***************************************************************************)
(* src/unnamed/part_002: PHC records, through the package @phc/format      *)
(***************************************************************************)
UpperChars == {B64[k] : k \in 1..26}
LowerChars == {B64[k] : k \in 27..52}
DigitChars == {B64[k] : k \in 53..62}
NameChars == LowerChars \cup DigitChars \cup {"-"}
ValueChars == UpperChars \cup LowerChars \cup DigitChars \cup {"/", "+", ".", "-"}

matchesAll(text, chars) == \A k \in 1..Len(text) : text[k] \in chars
isName(t) == Len(t) \in 1..32 /\ matchesAll(t, NameChars)
isValue(t) == Len(t) >= 1 /\ matchesAll(t, ValueChars)
isB64Field(t) == matchesAll(t, ValueChars)
isDecimal(t) ==
  \/ t = << "0" >>
  \/ LET u == IF Len(t) > 0 /\ t[1] = "-" THEN Tail(t) ELSE t
     IN  Len(u) >= 1 /\ u[1] \in DigitChars \ {"0"} /\ matchesAll(u, DigitChars)
isVersion(t) ==
  Len(t) >= 3 /\ t[1] = "v" /\ t[2] = "=" /\ matchesAll(SubSeq(t, 3, Len(t)), DigitChars)

\* buf.toString('base64').split('=')[0]
toBase64NoPad(buf) == split(toBase64(buf), "=")[1]

\* phc.serialize({id: 'scrypt', hash, salt, params: {n, r, p}})
serialize(derivedKey, salt, o) ==
  join(<< << >>,
          << "s", "c", "r", "y", "p", "t" >>,
          << "n", "=" >> \o toString(o.val["cost"]) \o << ",", "r", "=" >>
            \o toString(o.val["blockSize"]) \o << ",", "p", "=" >>
            \o toString(o.val["parallelization"]),
          toBase64NoPad(salt),
          toBase64NoPad(derivedKey) >>, "$")

\* A value of the params object: a number when the text is a decimal, the
\* text otherwise.
ParamValue(t) ==
  IF isDecimal(t) THEN [num |-> TRUE, v |-> parseInt(t).v, s |-> << >>]
  ELSE [num |-> FALSE, v |-> 0, s |-> t]

\* keyValtoObj: name=value pairs separated by commas; a later pair replaces an
\* earlier one of the same name.  ok is FALSE when a pair holds no '='.
keyValtoObj(parstr) ==
  LET items == split(parstr, ",")
      pairs == [k \in 1..Len(items) |-> split(items[k], "=")]
      names == {pairs[k][1] : k \in 1..Len(pairs)}
      lastOf(nm) == CHOOSE k \in 1..Len(pairs) :
                      /\ pairs[k][1] = nm
                      /\ \A m \in 1..Len(pairs) : pairs[m][1] = nm => m <= k
  IN  [ok |-> \A k \in 1..Len(pairs) : Len(pairs[k]) >= 2,
       obj |-> [nm \in names |-> join(Tail(pairs[lastOf(nm)]), "=")]]

PhcThrown(msg) ==
  [ok |-> FALSE, err |-> msg, hasHash |-> FALSE, hash |-> << >>,
   hasSalt |-> FALSE, salt |-> << >>, hasParams |-> FALSE, params |-> << >>]

\* phc.deserialize, the checks of the parameters keyValtoObj gave: err is the
\* message of the error thrown, "" when there is none.
checkParams(kv) ==
  [err |-> IF ~kv.ok THEN "params must be in the format name=value"
           ELSE IF ~\A nm \in DOMAIN kv.obj : isName(nm)
             THEN "params names must satisfy the name regex"
           ELSE IF ~\A nm \in DOMAIN kv.obj : isValue(kv.obj[nm])
             THEN "params values must satisfy the value regex"
           ELSE "",
   obj |-> [nm \in DOMAIN kv.obj |-> ParamValue(kv.obj[nm])]]

\* phc.deserialize, the object it returns once the fields are told apart.
phcObject(hasParams, params, unrecognized, hasHash, hash, hasSalt, salt) ==
  IF hasParams /\ params.err # "" THEN PhcThrown(params.err)
  ELSE IF unrecognized THEN PhcThrown("pchstr contains unrecognized fileds")
  ELSE [ok |-> TRUE, err |-> "", hasHash |-> hasHash, hash |-> hash,
        hasSalt |-> hasSalt, salt |-> salt, hasParams |-> hasParams,
        params |-> IF hasParams THEN params.obj ELSE << >>]

\* phc.deserialize, the fields after the identifier and the version: the last
\* one or two that look like base64 are the salt and the hash, the one before
\* them holds the parameters.
readFields(f2) ==
  LET n  == Len(f2)
      hasSalt == n >= 1 /\ isB64Field(f2[n])
      hasHash == hasSalt /\ n > 1 /\ isB64Field(f2[n - 1])
      rest == IF hasHash THEN SubSeq(f2, 1, n - 2)
              ELSE IF hasSalt THEN SubSeq(f2, 1, n - 1) ELSE f2
  IN  IF n = 0 THEN PhcThrown("The first argument must be of type string")
      ELSE phcObject(Len(rest) > 0,
                     checkParams(keyValtoObj(rest[Len(rest)])),
                     Len(rest) > 1,
                     hasHash,
                     IF hasHash THEN fromBase64(f2[n]) ELSE << >>,
                     hasSalt,
                     IF hasHash THEN fromBase64(f2[n - 1])
                     ELSE IF hasSalt THEN fromBase64(f2[n]) ELSE << >>)

\* phc.deserialize, the fields between the '$'.
readId(fields) ==
  LET maxf == IF Len(fields) >= 2 /\ isVersion(fields[2]) THEN 5 ELSE 4
  IN  IF Len(fields) > maxf THEN PhcThrown("pchstr contains too many fields")
      ELSE IF ~isName(fields[1]) THEN PhcThrown("id must satisfy the id regex")
      ELSE readFields(IF Len(fields) >= 2 /\ isVersion(fields[2])
                      THEN Tail(Tail(fields)) ELSE Tail(fields))

\* phc.deserialize(phcstr)
deserialize(phcstr) ==
  IF Len(phcstr) = 0 \/ phcstr[1] # "$"
  THEN PhcThrown("pchstr must contain a $ as first char")
  ELSE readId(Tail(split(phcstr, "$")))

\* parsedHash.params[name] equals the option value (a number): the strict
\* comparison of part_002's parse.  N is read from the n of the record.
paramIs(params, name, value) ==
  /\ name \in DOMAIN params
  /\ params[name].num
  /\ params[name].v = value

\* parse of part_002 after phc.deserialize: params.N = params.n, then the
\* strict checks.
checkParsed(parsedHash, combinedOptions) ==
  IF ~parsedHash.ok THEN parsedHash
  ELSE IF ~parsedHash.hasParams
    THEN PhcThrown("Cannot set properties of undefined (setting 'N')")
  ELSE IF ~combinedOptions.val["strict"] THEN parsedHash
  ELSE IF ~parsedHash.hasHash
    THEN PhcThrown("Cannot read properties of undefined (reading 'length')")
  ELSE IF Len(parsedHash.hash) # combinedOptions.val["hashlength"]
    THEN PhcThrown("Hash length does not match")
  ELSE IF Len(parsedHash.salt) # combinedOptions.val["saltlength"]
    THEN PhcThrown("Salt length does not match")
  ELSE IF ~paramIs(parsedHash.params, << "n" >>, combinedOptions.val["cost"])
    THEN PhcThrown("Parameter cost/N does not match")
  ELSE IF ~paramIs(parsedHash.params, << "r" >>, combinedOptions.val["blockSize"])
    THEN PhcThrown("Parameter blockSize/r does not match")
  ELSE IF ~paramIs(parsedHash.params, << "p" >>,
                   combinedOptions.val["parallelization"])
    THEN PhcThrown("Parameter parallelization/p does not match")
  ELSE parsedHash

parsePHC(cur, hash, options) ==
  checkParsed(deserialize(hash), getOptions("phc", cur, options))

\* A variant that leaves the strictness as the call resolved it.
needsRehash_AsResolved(cur, hash, options) ==
  ~parsePHC(cur, hash, options).ok

\* needsRehash: parse with { ...options, strict: true }
needsRehash(cur, hash, options) ==
  ~parsePHC(cur, hash, spread(options, Obj("strict" :> TRUE))).ok

\* An option crypto.scrypt reads from { ...parsedHash.params, maxmem }: absent,
\* it takes Node's default; not a number, crypto.scrypt throws.
scryptOption(params, name, default) ==
  IF name \notin DOMAIN params THEN [bad |-> FALSE, v |-> default]
  ELSE [bad |-> ~params[name].num, v |-> params[name].v]

\* verify of part_002, the call of crypto.scrypt with the parameters N, r, p
\* of the record.
deriveWith(parsedHash, fullPassword, N, r, p, maxmem) ==
  IF N.bad \/ r.bad \/ p.bad THEN VerifyRejected
  ELSE IF scryptRefuses(N.v, r.v, p.v, maxmem) THEN VerifyRejected
  ELSE VerifyStep("derive", fullPassword, parsedHash.salt, Len(parsedHash.hash),
                  N.v, r.v, p.v, parsedHash.hash)

\* verify of part_002, the body of the try after parse returned or threw
\* parsedHash.
verifyParsedPHC(parsedHash, fullPassword, maxmem) ==
  IF ~parsedHash.ok THEN VerifyFalse
  ELSE IF ~parsedHash.hasHash THEN VerifyRejected
  ELSE deriveWith(parsedHash, fullPassword,
                  scryptOption(parsedHash.params, << "n" >>, 16384),
                  scryptOption(parsedHash.params, << "r" >>, 8),
                  scryptOption(parsedHash.params, << "p" >>, 1),
                  maxmem)

verifyPHC(cur, password, hash, options) ==
  LET combinedOptions == getOptions("phc", cur, options)
  IN  verifyParsedPHC(parsePHC(cur, hash, options),
                      password \o combinedOptions.val["pepper"],
                      combinedOptions.val["maxmem"])

(***************************************************************************)
(* The callers' inputs                                                     *)
(***************************************************************************)
Und(k) == [val |-> << >>, und |-> {k}]

Passwords == { << "a" >>, << "a", "b" >> }

\* The option that makes the policy strict or not: `permissive` in index.js,
\* `strict` in part_002.
PolicyOverrides(i) ==
  IF i = "index"
  THEN { Obj("permissive" :> TRUE), Obj("permissive" :> FALSE),
         Obj(("blockSize" :> 8) @@ ("permissive" :> TRUE)),
         Obj(("blockSize" :> 8) @@ ("permissive" :> FALSE)) }
  ELSE { Obj("strict" :> TRUE), Obj("strict" :> FALSE),
         Obj(("blockSize" :> 8) @@ ("strict" :> TRUE)),
         Obj(("blockSize" :> 8) @@ ("strict" :> FALSE)) }

\* The option objects callers pass to opts, hash, verify, parse, looksGood and
\* needsRehash.
Overrides(i) ==
  { EmptyObj,
    Obj("hashlength" :> 16), Obj("saltlength" :> 8), Obj("pepper" :> << "b" >>),
    Obj("cost" :> 8192), Obj("blockSize" :> 16), Obj("parallelization" :> 2),
    Obj("maxmem" :> 1048576),
    Obj("N" :> 8192), Obj("r" :> 16),
    Und("pepper"), Und("r"),
    Obj(("cost" :> 16384) @@ ("N" :> 8192)) } \cup PolicyOverrides(i)

\* Texts that no call of hash produced.
invalidhash == << "i", "n", "v", "a", "l", "i", "d", "h", "a", "s", "h" >>

\* QQ==$QQ==$0$8$1: five fields, cost 0
zeroCost ==
  << "Q", "Q", "=", "=", "$", "Q", "Q", "=", "=", "$", "0", "$", "8", "$", "1" >>

\* $scrypt$QQ$QQ: a PHC string without parameters
noParams == << "$", "s", "c", "r", "y", "p", "t", "$", "Q", "Q", "$", "Q", "Q" >>

\* Further option objects: a field unset together with its short-hand, a
\* short-hand unset together with its field, a short-hand unset alone, and a
\* work factor of zero.
OptionInputs(i) ==
  Overrides(i) \cup
    { [val |-> ("r" :> 16), und |-> {"blockSize"}],
      [val |-> ("cost" :> 8192), und |-> {"N"}],
      Und("N"), Und("maxmem"), Und("hashlength"),
      Obj("cost" :> 0) }

\* Q!==$QQ==$16384$8$1: the key field holds a character outside base64
badBase64 ==
  << "Q", "!", "=", "=", "$", "Q", "Q", "=", "=", "$",
     "1", "6", "3", "8", "4", "$", "8", "$", "1" >>

\* QQ==$QQ==$16384$8abc$1: blockSize is digits followed by other characters
trailingChars ==
  << "Q", "Q", "=", "=", "$", "Q", "Q", "=", "=", "$",
     "1", "6", "3", "8", "4", "$", "8", "a", "b", "c", "$", "1" >>

\* QQ==$QQ==$16384$8$-1: parallelization is negative
negativeP ==
  << "Q", "Q", "=", "=", "$", "Q", "Q", "=", "=", "$",
     "1", "6", "3", "8", "4", "$", "8", "$", "-", "1" >>

\* QQ==$QQ==$$8$1: cost is empty
emptyCost ==
  << "Q", "Q", "=", "=", "$", "Q", "Q", "=", "=", "$", "$", "8", "$", "1" >>

\* QQ==$QQ==$16384$8$1: well formed, a key and a salt of one byte
oneByte ==
  << "Q", "Q", "=", "=", "$", "Q", "Q", "=", "=", "$",
     "1", "6", "3", "8", "4", "$", "8", "$", "1" >>

\* Texts in the format of index.js that no call of hash produced.
FiveFieldTexts == {badBase64, trailingChars, negativeP, emptyCost, zeroCost, oneByte}

(***************************************************************************)
(* State                                                                   *)
(***************************************************************************)
VARIABLES
  impl,            \* which generation of the module runs: "index" or "phc"
  currentOptions,  \* the module's variable currentOptions
  records,         \* the records the caller keeps, each with the call that made it
  pending,         \* the calls of crypto.scrypt whose callback has not run
  last,            \* the call that completed last and its result, until taken
  nOpts,           \* reconfiguration calls made
  fatal            \* an exception no handler caught has ended the process

vars == << impl, currentOptions, records, pending, last, nOpts, fatal >>

\* A completed call: overrides is the options argument, options the resolved
\* options (combinedOptions) of the call, text the record it read (for hash:
\* the record it made), cur the process-wide options it found.
Call(op, password, text, overrides, options, outcome, value, err) ==
  [op |-> op, password |-> password, text |-> text, overrides |-> overrides,
   options |-> options, outcome |-> outcome, value |-> value, err |-> err,
   cur |-> currentOptions]

NoCall ==
  [op |-> "none", password |-> << >>, text |-> << >>, overrides |-> EmptyObj,
   options |-> EmptyObj, outcome |-> "none", value |-> FALSE, err |-> "",
   cur |-> EmptyObj]

Init ==
  /\ impl \in Impls
  /\ currentOptions = defaultOptions(impl)
  /\ records = {}
  /\ pending = << >>
  /\ last = NoCall
  /\ nOpts = 0
  /\ fatal = FALSE

\* The record texts a caller can pass: those it keeps, and foreign ones.
ForeignTexts == {invalidhash, IF impl = "index" THEN zeroCost ELSE noParams}

Texts == {rec.text : rec \in records} \cup ForeignTexts

Remove(seq, k) == SubSeq(seq, 1, k - 1) \o SubSeq(seq, k + 1, Len(seq))

\* A caller is free to call: the result of the last call has been taken and
\* fewer than MaxPending callers await a derivation.
CallerFree == ~fatal /\ last = NoCall /\ Len(pending) < MaxPending

(***************************************************************************)
(* Operations                                                              *)
(***************************************************************************)
\* opts(options) with an argument: currentOptions = getOptions(options), and
\* currentOptions is returned.  It may run while derivations are in flight.
opts(options) ==
  /\ ~fatal
  /\ last = NoCall
  /\ nOpts' = nOpts + 1
  /\ currentOptions' = getOptions(impl, currentOptions, options)
  /\ last' = Call("opts", << >>, << >>, options,
                  getOptions(impl, currentOptions, options), "returned", TRUE, "")
  /\ UNCHANGED << impl, records, pending, fatal >>

\* A call of crypto.scrypt under way.
Derivation(op, password, text, overrides, options, d) ==
  [op |-> op, password |-> password, text |-> text, overrides |-> overrides,
   options |-> options, fullPassword |-> d.fullPassword, salt |-> d.salt,
   keylen |-> d.keylen,
   N |-> d.N, r |-> d.r, p |-> d.p, expected |-> d.expected]

\* A variant that asks crypto.scrypt for a key of the default length.
hashStep_DefaultLength(cur, password, options, salt) ==
  LET combinedOptions == getOptions(impl, cur, options)
      fullPassword == password \o combinedOptions.val["pepper"]
  IN  VerifyStep(IF scryptRefuses(combinedOptions.val["cost"],
                                  combinedOptions.val["blockSize"],
                                  combinedOptions.val["parallelization"],
                                  combinedOptions.val["maxmem"])
                 THEN "rejected" ELSE "derive",
                 fullPassword, salt, DefaultHashLength,
                 combinedOptions.val["cost"], combinedOptions.val["blockSize"],
                 combinedOptions.val["parallelization"], << >>)

\* hash up to the call of crypto.scrypt (the same text in both generations).
hashStep(cur, password, options, salt) ==
  LET combinedOptions == getOptions(impl, cur, options)
      fullPassword == password \o combinedOptions.val["pepper"]
  IN  VerifyStep(IF scryptRefuses(combinedOptions.val["cost"],
                                  combinedOptions.val["blockSize"],
                                  combinedOptions.val["parallelization"],
                                  combinedOptions.val["maxmem"])
                 THEN "rejected" ELSE "derive",
                 fullPassword, salt, combinedOptions.val["hashlength"],
                 combinedOptions.val["cost"], combinedOptions.val["blockSize"],
                 combinedOptions.val["parallelization"], << >>)

\* The promise hash and verify return, once the executor has run to step d:
\* settled at once, or awaiting the callback of crypto.scrypt.
promise(op, password, text, overrides, options, d) ==
  IF d.step = "false"
  THEN /\ last' = Call(op, password, text, overrides, options, "resolved", FALSE, "")
       /\ UNCHANGED pending
  ELSE IF d.step = "rejected"
  THEN /\ last' = Call(op, password, text, overrides, options,
                       "rejected", FALSE, "Invalid scrypt params")
       /\ UNCHANGED pending
  ELSE /\ pending' = Append(pending,
            Derivation(op, password, text, overrides, options, d))
       /\ UNCHANGED last

hash(password, options) ==
  /\ CallerFree
  /\ Cardinality(records) + Cardinality({k \in 1..Len(pending) : pending[k].op = "hash"})
       < MaxRecords
  /\ \E salt \in randomBytes(getOptions(impl, currentOptions, options).val["saltlength"]) :
       promise("hash", password, << >>, options,
               getOptions(impl, currentOptions, options),
               hashStep(currentOptions, password, options, salt))
  /\ UNCHANGED << impl, currentOptions, records, nOpts, fatal >>

verifyCall(password, text, options) ==
  /\ CallerFree
  /\ promise("verify", password, text, options,
             getOptions(impl, currentOptions, options),
             IF impl = "index" THEN verify(currentOptions, password, text, options)
             ELSE verifyPHC(currentOptions, password, text, options))
  /\ UNCHANGED << impl, currentOptions, records, nOpts, fatal >>

\* A variant comparing the lengths only.
equals_Length(a, b) == Len(a) = Len(b)

\* derivedKey.equals(parsedHash.hashedPassword)
equals(a, b) == a = b

\* A variant that writes the record from the process-wide options of the
\* moment the callback runs.
scryptCallback_ReadsCurrent(k) ==
  LET c == pending[k]
      derivedKey == scryptKey(c.fullPassword, c.salt, c.keylen, c.N, c.r, c.p)
      text == IF impl = "index" THEN formatRecord(derivedKey, c.salt, currentOptions)
              ELSE serialize(derivedKey, c.salt, currentOptions)
  IN  /\ ~fatal
      /\ last = NoCall
      /\ pending' = Remove(pending, k)
      /\ IF c.op = "hash"
         THEN /\ records' = records \cup
                   {[text |-> text, password |-> c.password, options |-> c.options]}
              /\ last' = Call("hash", c.password, text, c.overrides, c.options,
                              "resolved", TRUE, "")
         ELSE /\ last' = Call("verify", c.password, c.text, c.overrides, c.options,
                              "resolved", equals(derivedKey, c.expected), "")
              /\ UNCHANGED records
      /\ UNCHANGED << impl, currentOptions, nOpts, fatal >>

\* The callback crypto.scrypt calls with the derived key.
scryptCallback(k) ==
  LET c == pending[k]
      derivedKey == scryptKey(c.fullPassword, c.salt, c.keylen, c.N, c.r, c.p)
      text == IF impl = "index" THEN formatRecord(derivedKey, c.salt, c.options)
              ELSE serialize(derivedKey, c.salt, c.options)
  IN  /\ ~fatal
      /\ last = NoCall
      /\ pending' = Remove(pending, k)
      /\ IF c.op = "hash"
         THEN /\ records' = records \cup
                   {[text |-> text, password |-> c.password, options |-> c.options]}
              /\ last' = Call("hash", c.password, text, c.overrides, c.options,
                              "resolved", TRUE, "")
         ELSE /\ last' = Call("verify", c.password, c.text, c.overrides, c.options,
                              "resolved", equals(derivedKey, c.expected), "")
              /\ UNCHANGED records
      /\ UNCHANGED << impl, currentOptions, nOpts, fatal >>

\* The callback crypto.scrypt calls with an error.  verify rejects and
\* returns.  hash rejects and goes on to resolve: in index.js
\* derivedKey.toString throws on the undefined key, inside a callback no
\* handler surrounds; in part_002 phc.serialize leaves out the undefined hash
\* and the resolve after the reject does nothing.
scryptError(k) ==
  LET c == pending[k]
  IN  /\ ~fatal
      /\ last = NoCall
      /\ pending' = Remove(pending, k)
      /\ last' = Call(c.op, c.password, c.text, c.overrides, c.options,
                      "rejected", FALSE, "scrypt error")
      /\ fatal' = (c.op = "hash" /\ impl = "index")
      /\ UNCHANGED << impl, currentOptions, records, nOpts >>

parseCall(text, options) ==
  LET combinedOptions == getOptions(impl, currentOptions, options)
      h == IF impl = "index" THEN parse(currentOptions, text, options)
           ELSE parsePHC(currentOptions, text, options)
  IN  /\ CallerFree
      /\ last' = Call("parse", << >>, text, options, combinedOptions,
                      IF h.ok THEN "returned" ELSE "threw", h.ok, h.err)
      /\ UNCHANGED << impl, currentOptions, records, pending, nOpts, fatal >>

looksGoodCall(text, options) ==
  /\ impl = "index"
  /\ CallerFree
  /\ last' = Call("looksGood", << >>, text, options,
                  getOptions(impl, currentOptions, options), "returned", looksGood(currentOptions, text, options), "")
  /\ UNCHANGED << impl, currentOptions, records, pending, nOpts, fatal >>

needsRehashCall(text, options) ==
  /\ impl = "phc"
  /\ CallerFree
  /\ last' = Call("needsRehash", << >>, text, options,
                  getOptions(impl, currentOptions, options), "returned", needsRehash(currentOptions, text, options), "")
  /\ UNCHANGED << impl, currentOptions, records, pending, nOpts, fatal >>

\* The caller takes the result of the completed call.
takeResult ==
  /\ ~fatal
  /\ last # NoCall
  /\ last' = NoCall
  /\ UNCHANGED << impl, currentOptions, records, pending, nOpts, fatal >>

Next ==
  \/ nOpts < MaxOpts /\ \E options \in Overrides(impl) : opts(options)
  \/ \E password \in Passwords, options \in Overrides(impl) : hash(password, options)
  \/ \E password \in Passwords, text \in Texts, options \in Overrides(impl) :
       verifyCall(password, text, options)
  \/ \E k \in 1..Len(pending) : scryptCallback(k)
  \/ \E text \in Texts, options \in Overrides(impl) : parseCall(text, options)
  \/ \E text \in Texts, options \in Overrides(impl) : looksGoodCall(text, options)
  \/ \E text \in Texts, options \in Overrides(impl) : needsRehashCall(text, options)
  \/ takeResult

Spec == Init /\ [][Next]_vars

\* The synchronous operations alone, opts and parse, over the wider inputs.
NextSync ==
  \/ nOpts < MaxReconfigure /\ \E options \in OptionInputs(impl) : opts(options)
  \/ \E text \in FiveFieldTexts \cup {invalidhash, noParams},
         options \in OptionInputs(impl) : parseCall(text, options)
  \/ takeResult

SpecSync == Init /\ [][NextSync]_vars

\* hash and verify with a primitive that may also fail in its callback.
NextFaults ==
  \/ \E password \in Passwords, options \in Overrides(impl) : hash(password, options)
  \/ \E password \in Passwords, text \in Texts, options \in Overrides(impl) :
       verifyCall(password, text, options)
  \/ \E k \in 1..Len(pending) : scryptCallback(k)
  \/ \E k \in 1..Len(pending) : scryptError(k)
  \/ takeResult

SpecFaults == Init /\ [][NextFaults]_vars

(***************************************************************************)
(* Properties                                                              *)
(***************************************************************************)
Five == {"hashlength", "saltlength", "cost", "blockSize", "parallelization"}

\* The two option objects agree on the five values a record carries.
SameFive(a, b) == \A k \in Five : a.val[k] = b.val[k]

\* The two option objects agree on every key but those of ks.
SameBut(a, b, ks) ==
  /\ a.und = b.und
  /\ DOMAIN a.val = DOMAIN b.val
  /\ \A k \in DOMAIN a.val \ ks : a.val[k] = b.val[k]

\* The completed call read the record rec.
Read(op, rec) == last.op = op /\ last.text = rec.text

MismatchErrors ==
  { "Hash length does not match", "Salt length does not match",
    "Parameter cost does not match", "Parameter blockSize does not match",
    "Parameter parallelization does not match",
    "Parameter cost/N does not match", "Parameter blockSize/r does not match",
    "Parameter parallelization/p does not match" }

\* C1: verify(p, hash(p)) resolves true when both calls resolve to the same
\* options.
C1_RoundTrip ==
  \A rec \in records :
    (Read("verify", rec) /\ last.password = rec.password /\ last.options = rec.options)
      => (last.outcome = "resolved" /\ last.value = TRUE)

C1_Witness ==
  \E rec \in records :
    /\ Read("verify", rec) /\ last.password = rec.password
    /\ last.options = rec.options
    /\ last.options # defaultOptions(impl)
    /\ isStrict(impl, last.options)
    /\ last.value = TRUE

\* C2: verify(q, hash(p)) resolves false for q # p under the same options.
C2_WrongPassword ==
  \A rec \in records :
    (Read("verify", rec) /\ last.password # rec.password /\ last.options = rec.options)
      => (last.outcome = "resolved" /\ last.value = FALSE)

C2_Witness ==
  \E rec \in records :
    /\ Read("verify", rec) /\ last.password # rec.password
    /\ last.options = rec.options
    /\ pending = << >>
    /\ last.outcome = "resolved" /\ last.value = FALSE

\* parse of the text of the completed call, under the options it resolved.
Decoded ==
  IF impl = "index" THEN parse(last.options, last.text, EmptyObj).ok
  ELSE parsePHC(last.options, last.text, EmptyObj).ok

\* C3: when decoding the record fails, verify resolves false; it never rejects
\* with the error of parse.
C3_DecodeFailureIsFalse ==
  (last.op = "verify" /\ ~Decoded) => (last.outcome = "resolved" /\ last.value = FALSE)

C3_Witness ==
  /\ last.op = "verify" /\ last.text = invalidhash
  /\ last.outcome = "resolved" /\ last.value = FALSE

\* C4: when the record decodes and crypto.scrypt refuses to derive from the
\* parameters of the record under the maxmem of the call, verify resolves false
\* and does not reject.
C4_PrimitiveFailureIsFalse ==
  \A rec \in records :
    ( /\ Read("verify", rec) /\ Decoded
      /\ scryptRefuses(rec.options.val["cost"], rec.options.val["blockSize"],
                       rec.options.val["parallelization"], last.options.val["maxmem"]) )
      => (last.outcome = "resolved" /\ last.value = FALSE)

\* C5: with the options at their defaults and no strictness passed, a record
\* made with another cost verifies true for its password.
C5_DriftAcceptedByDefault ==
  \A rec \in records :
    ( /\ Read("verify", rec) /\ last.password = rec.password
      /\ last.options = defaultOptions(impl)
      /\ SameBut(rec.options, defaultOptions(impl), {"cost"})
      /\ rec.options.val["cost"] # DefaultCost )
      => (last.outcome = "resolved" /\ last.value = TRUE)

\* C6: under a strict policy, parse of a record made by hash succeeds exactly
\* when the five values of the record are those of the policy, throws a
\* mismatch error otherwise, and verify then resolves false.
C6_StrictComparesFive ==
  \A rec \in records :
    /\ (Read("parse", rec) /\ isStrict(impl, last.options)) =>
         IF SameFive(rec.options, last.options)
         THEN last.outcome = "returned"
         ELSE last.outcome = "threw" /\ last.err \in MismatchErrors
    /\ ( /\ Read("verify", rec) /\ isStrict(impl, last.options)
         /\ ~SameFive(rec.options, last.options) )
         => (last.outcome = "resolved" /\ last.value = FALSE)

C6_Witness ==
  \E rec \in records :
    /\ Read("verify", rec) /\ last.password = rec.password
    /\ isStrict(impl, last.options)
    /\ SameBut(rec.options, last.options, {"parallelization"})
    /\ rec.options.val["parallelization"] # last.options.val["parallelization"]
    /\ last.value = FALSE

\* C7: a record made with blockSize 16 does not parse under a strict policy
\* with blockSize 8 (the error names blockSize) and parses under the same
\* policy made permissive.
C7_StrictPermissiveDivergence ==
  \A rec \in records :
    ( /\ Read("parse", rec)
      /\ rec.options.val["blockSize"] = 16
      /\ last.options.val["blockSize"] = 8
      /\ \A k \in Five \ {"blockSize"} : rec.options.val[k] = last.options.val[k] )
      => IF isStrict(impl, last.options)
         THEN /\ last.outcome = "threw"
              /\ last.err \in { "Parameter blockSize does not match",
                                "Parameter blockSize/r does not match" }
         ELSE last.outcome = "returned"

C7_Witness ==
  \E rec \in records :
    /\ Read("parse", rec)
    /\ rec.options.val["blockSize"] = 16
    /\ last.options.val["blockSize"] = 8
    /\ \A k \in Five \ {"blockSize"} : rec.options.val[k] = last.options.val[k]
    /\ ~isStrict(impl, last.options)
    /\ currentOptions.val["blockSize"] = 16
    /\ last.outcome = "returned"

C9_ReadmeNeedsRehash ==
  \A rec \in records :
    ( /\ Read("needsRehash", rec)
      /\ rec.options.val["blockSize"] = 8
      /\ currentOptions.val["blockSize"] = 16 )
      => /\ last.overrides = EmptyObj => last.value = TRUE
         /\ last.overrides = Obj("strict" :> FALSE) => last.value = FALSE

\* C10: for the password of the record and options that differ from those of
\* hash in the pepper at most, verify resolves true exactly when the pepper is
\* the one hash used.
C10_PepperIsolation ==
  \A rec \in records :
    ( /\ Read("verify", rec) /\ last.password = rec.password
      /\ SameBut(last.options, rec.options, {"pepper"}) )
      => /\ last.outcome = "resolved"
         /\ last.value = (last.options.val["pepper"] = rec.options.val["pepper"])

C10_Witness ==
  \E rec \in records :
    /\ Read("verify", rec) /\ last.password = rec.password
    /\ SameBut(last.options, rec.options, {"pepper"})
    /\ rec.options.val["pepper"] = << >>
    /\ currentOptions.val["pepper"] = << "b" >>
    /\ last.overrides = EmptyObj
    /\ last.outcome = "resolved" /\ last.value = FALSE

\* The override names field k, under its own name or its short-hand.
Names(o, k) ==
  k \in Keys(o) \/ (k \in DOMAIN shorthand /\ shorthand[k] \in Keys(o))

\* The override holds field k, or its short-hand, with undefined.
Unsets(o, k) ==
  k \in o.und \/ (k \in DOMAIN shorthand /\ shorthand[k] \in o.und)

\* The override holds the short-hand of field k with a value.
ShorthandGiven(o, k) ==
  k \in DOMAIN shorthand /\ shorthand[k] \in DOMAIN o.val

Fields == DOMAIN defaultOptions(impl).val

\* C11 as stated: a reconfigure call whose override holds a field or its
\* short-hand with undefined leaves that field at its default, and every field
\* the override does not name as it was.
C11_UnsetResetsToDefault ==
  last.op = "opts" =>
    \A k \in Fields :
      /\ Unsets(last.overrides, k) =>
           currentOptions.val[k] = defaultOptions(impl).val[k]
      /\ ~Names(last.overrides, k) => currentOptions.val[k] = last.cur.val[k]

\* C11, amended: the same, unless the override also holds the short-hand of
\* the field with a value (the short-hand then decides).
C11_UnsetResetsUnlessShorthand ==
  last.op = "opts" =>
    \A k \in Fields :
      /\ (Unsets(last.overrides, k) /\ ~ShorthandGiven(last.overrides, k)) =>
           currentOptions.val[k] = defaultOptions(impl).val[k]
      /\ ~Names(last.overrides, k) => currentOptions.val[k] = last.cur.val[k]

C11_Witness ==
  /\ last.op = "opts"
  /\ last.overrides = Und("pepper")
  /\ last.cur.val["pepper"] = << "b" >>
  /\ currentOptions.val["pepper"] = << >>

\* The cost a record carries.
RecordCost(text) ==
  IF impl = "index" THEN parseInt(split(text, "$")[3]).v
  ELSE deserialize(text).params[<< "n" >>].v

\* C12: in the options a call resolves, no short-hand key remains, a field
\* whose short-hand the override gives takes the short-hand's value (also when
\* the override gives the field itself), the fields the override does not
\* name are those of the process-wide options, and a record hashed under
\* {N: v} carries cost v.
C12_AliasResolution ==
  last.op # "none" =>
    /\ \A k \in DOMAIN shorthand :
         /\ shorthand[k] \notin Keys(last.options)
         /\ shorthand[k] \in DOMAIN last.overrides.val =>
              last.options.val[k] = last.overrides.val[shorthand[k]]
    /\ last.op \in {"opts", "parse", "looksGood", "needsRehash"} =>
         \A k \in Fields :
           ~Names(last.overrides, k) => last.options.val[k] = last.cur.val[k]
    /\ ( /\ last.op = "hash" /\ last.outcome = "resolved"
         /\ "N" \in DOMAIN last.overrides.val )
         => RecordCost(last.text) = last.overrides.val["N"]

C12_Witness ==
  /\ last.op = "hash" /\ last.outcome = "resolved"
  /\ last.overrides = Obj(("cost" :> 16384) @@ ("N" :> 8192))
  /\ last.options.val["cost"] = 8192
  /\ RecordCost(last.text) = 8192

\* The text is a standard base64 encoding: groups of four characters of the
\* alphabet, the last group ending in at most two '='.
ValidBase64(t) ==
  LET n   == Len(t)
      pad == IF n >= 2 /\ t[n] = "=" /\ t[n - 1] = "=" THEN 2
             ELSE IF n >= 1 /\ t[n] = "=" THEN 1 ELSE 0
  IN  /\ n % 4 = 0
      /\ \A k \in 1..(n - pad) : t[k] \in DOMAIN B64Index

\* The text is the decimal text of a positive integer.
PositiveDecimal(t) ==
  /\ Len(t) >= 1
  /\ \A k \in 1..Len(t) : t[k] \in DOMAIN DigitValue
  /\ t[1] # "0"

InvalidParameter ==
  << "", "", "Invalid parameter cost", "Invalid parameter blockSize",
     "Invalid parameter parallelization" >>

\* C13: parse of a text of five fields whose key or salt field is no valid
\* base64 throws, and not a mismatch error, whether the policy is strict or
\* not.
C13_RejectsInvalidBase64 ==
  (impl = "index" /\ last.op = "parse") =>
    LET parts == split(last.text, "$")
    IN  (Len(parts) = 5 /\ (~ValidBase64(parts[1]) \/ ~ValidBase64(parts[2])))
          => (last.outcome = "threw" /\ last.err \notin MismatchErrors)

\* C14: parse of a text of five fields one of whose fields 3 to 5 is not the
\* decimal text of a positive integer throws "Invalid parameter" naming such a
\* field, whether the policy is strict or not.
C14_RejectsBadWorkFactors ==
  (impl = "index" /\ last.op = "parse") =>
    LET parts == split(last.text, "$")
    IN  Len(parts) = 5 =>
          LET bad == {k \in 3..5 : ~PositiveDecimal(parts[k])}
          IN  bad # {} =>
                (last.outcome = "threw" /\ last.err \in {InvalidParameter[k] : k \in bad})

\* The option object holds every field, and its numeric fields are positive
\* integers.
NumericFields ==
  {"hashlength", "saltlength", "cost", "blockSize", "parallelization", "maxmem"}

WellFormed(o) ==
  /\ Fields \subseteq DOMAIN o.val
  /\ \A k \in NumericFields : o.val[k] \in Nat \ {0}

\* C15: the process-wide options and the options every call resolves hold
\* every field, each numeric field a positive integer.
C15_ParameterSetInvariant ==
  /\ WellFormed(currentOptions)
  /\ last.op # "none" => WellFormed(last.options)

\* The key, the salt and the work factors a record made by hash carries.
RecordParts(text) ==
  IF impl = "index"
  THEN LET parts == split(text, "$")
       IN  [key |-> fromBase64(parts[1]), salt |-> fromBase64(parts[2]),
            cost |-> parseInt(parts[3]).v, blockSize |-> parseInt(parts[4]).v,
            parallelization |-> parseInt(parts[5]).v]
  ELSE LET h == deserialize(text)
       IN  [key |-> h.hash, salt |-> h.salt, cost |-> h.params[<< "n" >>].v,
            blockSize |-> h.params[<< "r" >>].v,
            parallelization |-> h.params[<< "p" >>].v]

C17_ConsistentSnapshot ==
  /\ \A k \in 1..Len(pending) :
       pending[k].op = "hash" =>
         /\ pending[k].fullPassword = pending[k].password \o pending[k].options.val["pepper"]
         /\ Len(pending[k].salt) = pending[k].options.val["saltlength"]
         /\ pending[k].keylen = pending[k].options.val["hashlength"]
         /\ pending[k].N = pending[k].options.val["cost"]
         /\ pending[k].r = pending[k].options.val["blockSize"]
         /\ pending[k].p = pending[k].options.val["parallelization"]
  /\ \A rec \in records :
       LET parts == RecordParts(rec.text)
       IN  /\ Len(parts.salt) = rec.options.val["saltlength"]
           /\ parts.key =
                scryptKey(rec.password \o rec.options.val["pepper"], parts.salt,
                          rec.options.val["hashlength"], parts.cost,
                          parts.blockSize, parts.parallelization)
           /\ parts.cost = rec.options.val["cost"]
           /\ parts.blockSize = rec.options.val["blockSize"]
           /\ parts.parallelization = rec.options.val["parallelization"]

\* opts({cost: 8192}) ran between the call of hash and its callback.
C17_Witness ==
  /\ last.op = "hash" /\ last.outcome = "resolved"
  /\ last.overrides = EmptyObj
  /\ last.options = defaultOptions(impl)
  /\ currentOptions.val["cost"] = 8192
  /\ RecordParts(last.text).cost = DefaultCost

\* C18: when crypto.scrypt fails in hash, at once or in its callback, hash
\* rejects and no exception is left uncaught.
C18_HashFailureOnlyRejects ==
  /\ ~fatal
  /\ (last.op = "hash" /\ last.err # "") => last.outcome = "rejected"

\* C19: verify resolves true whenever its password followed by its pepper is
\* the password of the record followed by the pepper of hash, the options
\* differing in the pepper at most.
C19_ConcatenationOnly ==
  \A rec \in records :
    ( /\ Read("verify", rec)
      /\ SameBut(last.options, rec.options, {"pepper"})
      /\ last.password \o last.options.val["pepper"]
           = rec.password \o rec.options.val["pepper"] )
      => (last.outcome = "resolved" /\ last.value = TRUE)

C19_Witness ==
  \E rec \in records :
    /\ Read("verify", rec)
    /\ SameBut(last.options, rec.options, {"pepper"})
    /\ rec.password = << "a", "b" >> /\ rec.options.val["pepper"] = << >>
    /\ last.password = << "a" >> /\ last.options.val["pepper"] = << "b" >>
    /\ last.outcome = "resolved" /\ last.value = TRUE

====
